---- MODULE Spec2Model ----
(***************************************************************************)
(* Model of common/flogging/modulelevels.go: the ModuleLevels engine that  *)
(* parses logging specifications, resolves the level of a logger name by   *)
(* walking the dotted hierarchy, memoizes resolutions and renders the      *)
(* active specification.                                                    *)
(*                                                                         *)
(* A Go string is a sequence of one-character strings; a Go map is a       *)
(* function whose domain is the set of keys present.                       *)
(***************************************************************************)
EXTENDS Integers, Sequences, FiniteSets, TLC

(***************************************************************************)
(* Bounds of the model                                                     *)
(***************************************************************************)
NumThreads == 2
MaxNameLen == 5
MaxLoggers == 2
MaxSegs == 2

(***************************************************************************)
(* Strings                                                                 *)
(***************************************************************************)
\* the characters the model uses, in ascending byte order
AsciiOrder ==
    << "#", "(", ")", ",", "-", ".", "2", ":", "=",
       "A", "B", "D", "E", "G", "I", "L", "N", "O", "P", "R", "U", "W", "Y",
       "_", "a", "b", "c", "d", "e", "f", "g", "i", "l", "n", "o", "p", "r",
       "t", "u", "v", "w" >>

Ord(c) == CHOOSE i \in 1..Len(AsciiOrder) : AsciiOrder[i] = c

\* Go's < on strings: bytewise lexicographic order
RECURSIVE StrLess(_, _)
StrLess(s, t) ==
    IF t = <<>> THEN FALSE
    ELSE IF s = <<>> THEN TRUE
    ELSE IF s[1] # t[1] THEN Ord(s[1]) < Ord(t[1])
    ELSE StrLess(Tail(s), Tail(t))

\* strings.Split(s, sep) for a one-character separator
RECURSIVE Split(_, _)
Split(s, sep) ==
    IF \E i \in 1..Len(s) : s[i] = sep
    THEN LET i == CHOOSE j \in 1..Len(s) :
                      s[j] = sep /\ \A k \in 1..(j-1) : s[k] # sep
         IN  <<SubSeq(s, 1, i-1)>> \o Split(SubSeq(s, i+1, Len(s)), sep)
    ELSE <<s>>

\* strings.Join(fields, sep)
RECURSIVE Join(_, _)
Join(fields, sep) ==
    IF fields = <<>> THEN <<>>
    ELSE IF Len(fields) = 1 THEN fields[1]
    ELSE fields[1] \o <<sep>> \o Join(Tail(fields), sep)

\* variant: strings.TrimRight(s, "."), which removes every trailing period
RECURSIVE TrimRight(_)
TrimRight(s) ==
    IF Len(s) > 0 /\ s[Len(s)] = "." THEN TrimRight(SubSeq(s, 1, Len(s)-1)) ELSE s

\* strings.TrimSuffix(s, "."): removes one trailing period, if any
TrimSuffix(s) ==
    IF Len(s) > 0 /\ s[Len(s)] = "." THEN SubSeq(s, 1, Len(s)-1) ELSE s

\* strings.LastIndex(s, "."): 0-based index of the last period, -1 if none
LastIndex(s) ==
    IF \E i \in 1..Len(s) : s[i] = "."
    THEN (CHOOSE i \in 1..Len(s) :
              s[i] = "." /\ \A k \in (i+1)..Len(s) : s[k] # ".") - 1
    ELSE -1

\* insertion of one string into an ascending sequence of strings
RECURSIVE InsertSorted(_, _)
InsertSorted(x, sorted) ==
    IF sorted = <<>> THEN <<x>>
    ELSE IF StrLess(sorted[1], x)
         THEN <<sorted[1]>> \o InsertSorted(x, Tail(sorted))
         ELSE <<x>> \o sorted

\* sort.Strings(fields)
RECURSIVE SortStrings(_)
SortStrings(fields) ==
    IF fields = <<>> THEN <<>>
    ELSE InsertSorted(fields[1], SortStrings(Tail(fields)))

(***************************************************************************)
(* Severity scale                                                          *)
(***************************************************************************)
PayloadLevel == -2
DebugLevel == -1
InfoLevel == 0
WarnLevel == 1
ErrorLevel == 2
DPanicLevel == 3
PanicLevel == 4
FatalLevel == 5

\* the recognised level spellings and their values
LevelNames ==
    ( <<"P","A","Y","L","O","A","D">> :> PayloadLevel ) @@
    ( <<"D","E","B","U","G">> :> DebugLevel ) @@
    ( <<"d","e","b","u","g">> :> DebugLevel ) @@
    ( <<"I","N","F","O">> :> InfoLevel ) @@
    ( <<"i","n","f","o">> :> InfoLevel ) @@
    ( <<"W","A","R","N">> :> WarnLevel ) @@
    ( <<"w","a","r","n">> :> WarnLevel ) @@
    ( <<"E","R","R","O","R">> :> ErrorLevel ) @@
    ( <<"e","r","r","o","r">> :> ErrorLevel )

IsValidLevel(name) == name \in DOMAIN LevelNames

NameToLevel(name) ==
    IF name \in DOMAIN LevelNames THEN LevelNames[name] ELSE InfoLevel

\* zapcore.Level.String(), as used by the %s verb and by Spec
LevelString(l) ==
    CASE l = DebugLevel  -> <<"d","e","b","u","g">>
      [] l = InfoLevel   -> <<"i","n","f","o">>
      [] l = WarnLevel   -> <<"w","a","r","n">>
      [] l = ErrorLevel  -> <<"e","r","r","o","r">>
      [] l = DPanicLevel -> <<"d","p","a","n","i","c">>
      [] l = PanicLevel  -> <<"p","a","n","i","c">>
      [] l = FatalLevel  -> <<"f","a","t","a","l">>
      [] l = PayloadLevel -> <<"L","e","v","e","l","(","-","2",")">>

(***************************************************************************)
(* Logger names                                                            *)
(***************************************************************************)
\* the class [[:alnum:]_#:-] of loggerNameRegexp, over the model's characters
NameChars ==
    { AsciiOrder[i] : i \in 1..Len(AsciiOrder) } \ { "(", ")", ",", ".", "=" }

\* loggerNameRegexp: ^[[:alnum:]_#:-]+(\.[[:alnum:]_#:-]+)*$
isValidLoggerName(loggerName) ==
    /\ Len(loggerName) > 0
    /\ \A i \in 1..Len(loggerName) : loggerName[i] \in NameChars \cup {"."}
    /\ loggerName[1] # "."
    /\ loggerName[Len(loggerName)] # "."
    /\ \A i \in 1..(Len(loggerName)-1) :
           ~(loggerName[i] = "." /\ loggerName[i+1] = ".")

(***************************************************************************)
(* Hierarchy resolver                                                      *)
(***************************************************************************)
NoKey == <<"=">>

\* variant: the walk truncates at the first period instead of the last
RECURSIVE walk_first(_, _)
walk_first(candidate, sp) ==
    IF candidate \in DOMAIN sp THEN candidate
    ELSE IF \E i \in 2..Len(candidate) : candidate[i] = "."
         THEN walk_first(SubSeq(candidate, 1,
                  (CHOOSE i \in 2..Len(candidate) :
                       candidate[i] = "." /\
                       \A k \in 2..(i-1) : candidate[k] # ".") - 1), sp)
         ELSE NoKey

\* the loop of calculateLevel: the key of m.specs at which the walk from
\* candidate stops, NoKey when it falls through to the default level
RECURSIVE walk(_, _)
walk(candidate, sp) ==
    IF candidate \in DOMAIN sp THEN candidate
    ELSE LET idx == LastIndex(candidate)
         IN  IF idx <= 0 THEN NoKey
             ELSE walk(SubSeq(candidate, 1, idx), sp)

\* variant: the walk starts at the bare name, without the trailing period
\* variant: the candidate loses one character per iteration
RECURSIVE walkTrace_char(_, _)
walkTrace_char(candidate, sp) ==
    IF candidate \in DOMAIN sp \/ Len(candidate) <= 1 THEN <<candidate>>
    ELSE <<candidate>> \o
         walkTrace_char(SubSeq(candidate, 1, Len(candidate) - 1), sp)

\* the loop of calculateLevel again: the candidates it looks up in m.specs,
\* in order
RECURSIVE walkTrace(_, _)
walkTrace(candidate, sp) ==
    IF candidate \in DOMAIN sp THEN <<candidate>>
    ELSE LET idx == LastIndex(candidate)
         IN  IF idx <= 0 THEN <<candidate>>
             ELSE <<candidate>> \o walkTrace(SubSeq(candidate, 1, idx), sp)

\* variant: the walk starts at the bare name, without the trailing period
calculateLevel_bare(loggerName, sp, dflt) ==
    LET key == walk(loggerName, sp)
    IN  IF key = NoKey THEN dflt ELSE sp[key]

calculateLevel(loggerName, sp, dflt) ==
    LET key == walk(loggerName \o <<".">>, sp)
    IN  IF key = NoKey THEN dflt ELSE sp[key]

(***************************************************************************)
(* Specification parser: the loop of ActivateSpec over its local           *)
(* defaultLevel and specs                                                  *)
(***************************************************************************)
EmptyMap == << >>

NilErr == [kind |-> "nil", spec |-> << >>, what |-> << >>]

\* variant: the failing text is passed for both verbs
Errorf_twice(kind, spec, what) == [kind |-> kind, spec |-> what, what |-> what]

\* errors.Errorf("invalid logging specification '%s': <kind> '%s'", spec, what)
Errorf(kind, spec, what) == [kind |-> kind, spec |-> spec, what |-> what]

\* the inner loop over the loggers of one segment
RECURSIVE setLoggers(_, _, _, _)
setLoggers(spec, loggers, level, sp) ==
    IF loggers = << >> THEN [err |-> NilErr, specs |-> sp]
    ELSE IF ~isValidLoggerName(TrimSuffix(loggers[1]))
         THEN [err |-> Errorf("bad logger name", spec, loggers[1]), specs |-> sp]
         ELSE setLoggers(spec, Tail(loggers), level, (loggers[1] :> level) @@ sp)

\* the outer loop over the ':'-separated fields; the result carries the
\* error returned (NilErr when the loop completes) and the locals
RECURSIVE parseFields(_, _, _, _)
parseFields(spec, fields, dflt, sp) ==
    IF fields = << >> THEN [err |-> NilErr, defaultLevel |-> dflt, specs |-> sp]
    ELSE
      LET field == fields[1]
          split == Split(field, "=")
          fail(kind, what) ==
              [err |-> Errorf(kind, spec, what), defaultLevel |-> dflt, specs |-> sp]
      IN  CASE Len(split) = 1 ->
                 IF field # << >> /\ ~IsValidLevel(field)
                 THEN fail("bad segment", field)
                 ELSE parseFields(spec, Tail(fields), NameToLevel(field), sp)
            [] Len(split) = 2 ->
                 IF split[1] = << >>
                 THEN fail("no logger specified in segment", field)
                 ELSE IF field # << >> /\ ~IsValidLevel(split[2])
                 THEN fail("bad segment", field)
                 ELSE LET r == setLoggers(spec, Split(split[1], ","),
                                          NameToLevel(split[2]), sp)
                      IN  IF r.err # NilErr
                          THEN [err |-> r.err, defaultLevel |-> dflt,
                                specs |-> r.specs]
                          ELSE parseFields(spec, Tail(fields), dflt, r.specs)
            [] OTHER -> fail("bad segment", field)

\* variant: the fields are visited from right to left
RECURSIVE Reverse(_)
Reverse(q) == IF q = << >> THEN << >> ELSE Append(Reverse(Tail(q)), q[1])

ParseSpec_rev(spec) ==
    parseFields(spec, Reverse(Split(spec, ":")), InfoLevel, EmptyMap)

ParseSpec(spec) == parseFields(spec, Split(spec, ":"), InfoLevel, EmptyMap)

(***************************************************************************)
(* Specification serializer                                                *)
(***************************************************************************)
\* the orders in which a range over a map may visit its keys
Orders(keys) ==
    { o \in [1..Cardinality(keys) -> keys] :
          \A i, j \in 1..Cardinality(keys) : i # j => o[i] # o[j] }

\* fmt.Sprintf("%s=%s", k, v)
Field(k, v) == k \o <<"=">> \o LevelString(v)

\* variant: the fields are joined in iteration order, without the sort
SpecString_unsorted(order, sp, dflt) ==
    LET fields == [i \in 1..Len(order) |-> Field(order[i], sp[order[i]])]
    IN  Join(Append(fields, LevelString(dflt)), ":")

\* the body of Spec for one iteration order of m.specs
SpecString(order, sp, dflt) ==
    LET fields == [i \in 1..Len(order) |-> Field(order[i], sp[order[i]])]
    IN  Join(Append(SortStrings(fields), LevelString(dflt)), ":")

(***************************************************************************)
(* Arguments of the concurrent callers                                     *)
(***************************************************************************)
SpecArgs ==
    { <<"a","=","D","E","B","U","G">>,
      <<"a",".","b","=","E","R","R","O","R",":","W","A","R","N">>,
      <<"a","=","E","R","R","O","R",":","=">> }

NameArgs == { <<"a",".","b">> }

(***************************************************************************)
(* State                                                                   *)
(***************************************************************************)
VARIABLES
    defaultLevel,   \* m.defaultLevel
    specs,          \* m.specs
    levelCache,     \* m.levelCache
    levelCacheNil,  \* TRUE while m.levelCache is the nil map of the zero value
    mutex,          \* m.mutex: w is the writer holding it (0: none), r the readers
    pc,             \* where each calling goroutine is
    arg,            \* the argument of each goroutine's current call
    ret,            \* what each goroutine's last call returned
    seen            \* history: the levels the resolver gives for the name of a
                    \* running Level call under the configurations active so far

engine == <<defaultLevel, specs, levelCache, levelCacheNil>>
vars == <<defaultLevel, specs, levelCache, levelCacheNil, mutex, pc, arg, ret, seen>>

Threads == 1..NumThreads

NoRet == [op |-> "none", in |-> << >>, lvl |-> 0, str |-> << >>,
          err |-> NilErr, via |-> NoKey]

LevelPcs == {"cl_rlock", "cl_read", "l_lock", "l_calc"}

\* the zero value of ModuleLevels
InitEngine ==
    /\ defaultLevel = 0
    /\ specs = EmptyMap
    /\ levelCache = EmptyMap
    /\ levelCacheNil = TRUE
    /\ mutex = [w |-> 0, r |-> {}]

InitCallers ==
    /\ pc = [t \in Threads |-> "idle"]
    /\ arg = [t \in Threads |-> << >>]
    /\ ret = [t \in Threads |-> NoRet]
    /\ seen = [t \in Threads |-> {}]

Init == InitEngine /\ InitCallers

(***************************************************************************)
(* sync.RWMutex                                                            *)
(***************************************************************************)
CanLock == mutex.w = 0 /\ mutex.r = {}
CanRLock == mutex.w = 0
Locked(t) == [mutex EXCEPT !.w = t]
Unlocked == [mutex EXCEPT !.w = 0]
RLocked(t) == [mutex EXCEPT !.r = @ \cup {t}]
RUnlocked(t) == [mutex EXCEPT !.r = @ \ {t}]

(***************************************************************************)
(* ActivateSpec                                                            *)
(***************************************************************************)
\* variant: the loop writes into the engine, so a failing spec leaves the
\* segments parsed before the failure installed
ActivateSpec_do_partial(t, spec) ==
    LET r == ParseSpec(spec)
    IN  /\ ret' = [ret EXCEPT ![t] =
                      [NoRet EXCEPT !.op = "ActivateSpec", !.in = spec, !.err = r.err]]
        /\ defaultLevel' = r.defaultLevel
        /\ specs' = r.specs
        /\ levelCache' = EmptyMap
        /\ levelCacheNil' = FALSE
        /\ seen' = [u \in Threads |->
                      IF pc[u] \in LevelPcs
                      THEN seen[u] \cup
                           {calculateLevel(arg[u], r.specs, r.defaultLevel)}
                      ELSE seen[u]]

\* variant: a successful ActivateSpec keeps the entries of the cache
ActivateSpec_do_keepcache(t, spec) ==
    LET r == ParseSpec(spec)
    IN  /\ ret' = [ret EXCEPT ![t] =
                      [NoRet EXCEPT !.op = "ActivateSpec", !.in = spec, !.err = r.err]]
        /\ IF r.err # NilErr
           THEN UNCHANGED <<engine, seen>>
           ELSE /\ defaultLevel' = r.defaultLevel
                /\ specs' = r.specs
                /\ levelCache' = levelCache
                /\ levelCacheNil' = FALSE
                /\ seen' = [u \in Threads |->
                              IF pc[u] \in LevelPcs
                              THEN seen[u] \cup
                                   {calculateLevel(arg[u], r.specs, r.defaultLevel)}
                              ELSE seen[u]]

\* variant: a key that the engine already holds is rejected as a duplicate
ActivateSpec_do_nodup(t, spec) ==
    LET r == ParseSpec(spec)
        dup == \E k \in DOMAIN r.specs : k \in DOMAIN specs
        err == IF r.err = NilErr /\ dup
               THEN Errorf("bad segment", spec, spec) ELSE r.err
    IN  /\ ret' = [ret EXCEPT ![t] =
                      [NoRet EXCEPT !.op = "ActivateSpec", !.in = spec, !.err = err]]
        /\ IF err # NilErr
           THEN UNCHANGED <<engine, seen>>
           ELSE /\ defaultLevel' = r.defaultLevel
                /\ specs' = r.specs
                /\ levelCache' = EmptyMap
                /\ levelCacheNil' = FALSE
                /\ seen' = [u \in Threads |->
                              IF pc[u] \in LevelPcs
                              THEN seen[u] \cup
                                   {calculateLevel(arg[u], r.specs, r.defaultLevel)}
                              ELSE seen[u]]

\* variant: the parsed overrides are added to the overrides already held
ActivateSpec_do_merge(t, spec) ==
    LET r == ParseSpec(spec)
    IN  /\ ret' = [ret EXCEPT ![t] =
                      [NoRet EXCEPT !.op = "ActivateSpec", !.in = spec, !.err = r.err]]
        /\ IF r.err # NilErr
           THEN UNCHANGED <<engine, seen>>
           ELSE /\ defaultLevel' = r.defaultLevel
                /\ specs' = r.specs @@ specs
                /\ levelCache' = EmptyMap
                /\ levelCacheNil' = FALSE
                /\ seen' = [u \in Threads |->
                              IF pc[u] \in LevelPcs
                              THEN seen[u] \cup
                                   {calculateLevel(arg[u], r.specs @@ specs,
                                                   r.defaultLevel)}
                              ELSE seen[u]]

\* the body of ActivateSpec between Lock and the deferred Unlock
ActivateSpec_do(t, spec) ==
    LET r == ParseSpec(spec)
    IN  /\ ret' = [ret EXCEPT ![t] =
                      [NoRet EXCEPT !.op = "ActivateSpec", !.in = spec, !.err = r.err]]
        /\ IF r.err # NilErr
           THEN UNCHANGED <<engine, seen>>
           ELSE /\ defaultLevel' = r.defaultLevel
                /\ specs' = r.specs
                /\ levelCache' = EmptyMap
                /\ levelCacheNil' = FALSE
                /\ seen' = [u \in Threads |->
                              IF pc[u] \in LevelPcs
                              THEN seen[u] \cup
                                   {calculateLevel(arg[u], r.specs, r.defaultLevel)}
                              ELSE seen[u]]

ActivateSpec_call(t) ==
    /\ pc[t] = "idle"
    /\ \E spec \in SpecArgs : arg' = [arg EXCEPT ![t] = spec]
    /\ pc' = [pc EXCEPT ![t] = "as_lock"]
    /\ ret' = [ret EXCEPT ![t] = NoRet]
    /\ seen' = [seen EXCEPT ![t] = {}]
    /\ UNCHANGED <<engine, mutex>>

ActivateSpec_Lock(t) ==
    /\ pc[t] = "as_lock"
    /\ CanLock
    /\ mutex' = Locked(t)
    /\ pc' = [pc EXCEPT ![t] = "as_body"]
    /\ UNCHANGED <<engine, arg, ret, seen>>

ActivateSpec_body(t) ==
    /\ pc[t] = "as_body"
    /\ ActivateSpec_do(t, arg[t])
    /\ mutex' = Unlocked
    /\ pc' = [pc EXCEPT ![t] = "idle"]
    /\ UNCHANGED arg

(***************************************************************************)
(* Level, cachedLevel                                                      *)
(***************************************************************************)
\* cachedLevel's lookup: a nil map has no entries
CacheHit(loggerName) == ~levelCacheNil /\ loggerName \in DOMAIN levelCache

\* Level returning the cached level
Level_hit(t, loggerName) ==
    /\ ret' = [ret EXCEPT ![t] =
                  [NoRet EXCEPT !.op = "Level", !.in = loggerName,
                                !.lvl = levelCache[loggerName]]]
    /\ UNCHANGED engine

\* variant: the critical section caches the default level instead of the
\* calculated one
Level_store_default(t, loggerName) ==
    LET level == calculateLevel(loggerName, specs, defaultLevel)
    IN  IF levelCacheNil
        THEN /\ ret' = [ret EXCEPT ![t] =
                          [NoRet EXCEPT !.op = "panic", !.in = loggerName]]
             /\ UNCHANGED engine
        ELSE /\ levelCache' = (loggerName :> defaultLevel) @@ levelCache
             /\ ret' = [ret EXCEPT ![t] =
                          [NoRet EXCEPT !.op = "Level", !.in = loggerName,
                                        !.lvl = level,
                                        !.via = walk(loggerName \o <<".">>, specs)]]
             /\ UNCHANGED <<defaultLevel, specs, levelCacheNil>>

\* variant: the critical section also assigns the calculated level to
\* m.defaultLevel
Level_store_setdefault(t, loggerName) ==
    LET level == calculateLevel(loggerName, specs, defaultLevel)
    IN  IF levelCacheNil
        THEN /\ ret' = [ret EXCEPT ![t] =
                          [NoRet EXCEPT !.op = "panic", !.in = loggerName]]
             /\ UNCHANGED engine
        ELSE /\ levelCache' = (loggerName :> level) @@ levelCache
             /\ defaultLevel' = level
             /\ ret' = [ret EXCEPT ![t] =
                          [NoRet EXCEPT !.op = "Level", !.in = loggerName,
                                        !.lvl = level,
                                        !.via = walk(loggerName \o <<".">>, specs)]]
             /\ UNCHANGED <<specs, levelCacheNil>>

\* the critical section of Level: calculate, store, return; the store into
\* a nil map panics, with the mutex still held
Level_store(t, loggerName) ==
    LET level == calculateLevel(loggerName, specs, defaultLevel)
    IN  IF levelCacheNil
        THEN /\ ret' = [ret EXCEPT ![t] =
                          [NoRet EXCEPT !.op = "panic", !.in = loggerName]]
             /\ UNCHANGED engine
        ELSE /\ levelCache' = (loggerName :> level) @@ levelCache
             /\ ret' = [ret EXCEPT ![t] =
                          [NoRet EXCEPT !.op = "Level", !.in = loggerName,
                                        !.lvl = level,
                                        !.via = walk(loggerName \o <<".">>, specs)]]
             /\ UNCHANGED <<defaultLevel, specs, levelCacheNil>>

Level_call(t) ==
    /\ pc[t] = "idle"
    /\ \E loggerName \in NameArgs :
          /\ arg' = [arg EXCEPT ![t] = loggerName]
          /\ seen' = [seen EXCEPT ![t] =
                         {calculateLevel(loggerName, specs, defaultLevel)}]
    /\ pc' = [pc EXCEPT ![t] = "cl_rlock"]
    /\ ret' = [ret EXCEPT ![t] = NoRet]
    /\ UNCHANGED <<engine, mutex>>

cachedLevel_RLock(t) ==
    /\ pc[t] = "cl_rlock"
    /\ CanRLock
    /\ mutex' = RLocked(t)
    /\ pc' = [pc EXCEPT ![t] = "cl_read"]
    /\ UNCHANGED <<engine, arg, ret, seen>>

cachedLevel_read(t) ==
    /\ pc[t] = "cl_read"
    /\ mutex' = RUnlocked(t)
    /\ IF CacheHit(arg[t])
       THEN /\ Level_hit(t, arg[t])
            /\ pc' = [pc EXCEPT ![t] = "idle"]
       ELSE /\ pc' = [pc EXCEPT ![t] = "l_lock"]
            /\ UNCHANGED <<engine, ret>>
    /\ UNCHANGED <<arg, seen>>

Level_Lock(t) ==
    /\ pc[t] = "l_lock"
    /\ CanLock
    /\ mutex' = Locked(t)
    /\ pc' = [pc EXCEPT ![t] = "l_calc"]
    /\ UNCHANGED <<engine, arg, ret, seen>>

Level_calc(t) ==
    /\ pc[t] = "l_calc"
    /\ Level_store(t, arg[t])
    /\ IF levelCacheNil
       THEN /\ pc' = [pc EXCEPT ![t] = "panic"]
            /\ UNCHANGED mutex
       ELSE /\ pc' = [pc EXCEPT ![t] = "idle"]
            /\ mutex' = Unlocked
    /\ UNCHANGED <<arg, seen>>

(***************************************************************************)
(* Spec, DefaultLevel                                                      *)
(***************************************************************************)
Spec_do(t) ==
    /\ \E order \in Orders(DOMAIN specs) :
          ret' = [ret EXCEPT ![t] =
                    [NoRet EXCEPT !.op = "Spec",
                                  !.str = SpecString(order, specs, defaultLevel)]]
    /\ UNCHANGED engine

Spec_call(t) ==
    /\ pc[t] = "idle"
    /\ pc' = [pc EXCEPT ![t] = "sp_rlock"]
    /\ arg' = [arg EXCEPT ![t] = << >>]
    /\ ret' = [ret EXCEPT ![t] = NoRet]
    /\ seen' = [seen EXCEPT ![t] = {}]
    /\ UNCHANGED <<engine, mutex>>

Spec_RLock(t) ==
    /\ pc[t] = "sp_rlock"
    /\ CanRLock
    /\ mutex' = RLocked(t)
    /\ pc' = [pc EXCEPT ![t] = "sp_body"]
    /\ UNCHANGED <<engine, arg, ret, seen>>

Spec_body(t) ==
    /\ pc[t] = "sp_body"
    /\ Spec_do(t)
    /\ mutex' = RUnlocked(t)
    /\ pc' = [pc EXCEPT ![t] = "idle"]
    /\ UNCHANGED <<arg, seen>>

DefaultLevel_call(t) ==
    /\ pc[t] = "idle"
    /\ pc' = [pc EXCEPT ![t] = "dl_rlock"]
    /\ arg' = [arg EXCEPT ![t] = << >>]
    /\ ret' = [ret EXCEPT ![t] = NoRet]
    /\ seen' = [seen EXCEPT ![t] = {}]
    /\ UNCHANGED <<engine, mutex>>

DefaultLevel_RLock(t) ==
    /\ pc[t] = "dl_rlock"
    /\ CanRLock
    /\ mutex' = RLocked(t)
    /\ pc' = [pc EXCEPT ![t] = "dl_read"]
    /\ UNCHANGED <<engine, arg, ret, seen>>

DefaultLevel_read(t) ==
    /\ pc[t] = "dl_read"
    /\ ret' = [ret EXCEPT ![t] =
                  [NoRet EXCEPT !.op = "DefaultLevel", !.lvl = defaultLevel]]
    /\ mutex' = RUnlocked(t)
    /\ pc' = [pc EXCEPT ![t] = "idle"]
    /\ UNCHANGED <<engine, arg, seen>>

(***************************************************************************)
(* Concurrent callers                                                      *)
(***************************************************************************)
Next ==
    \E t \in Threads :
        \/ ActivateSpec_call(t)
        \/ ActivateSpec_Lock(t)
        \/ ActivateSpec_body(t)
        \/ Level_call(t)
        \/ cachedLevel_RLock(t)
        \/ cachedLevel_read(t)
        \/ Level_Lock(t)
        \/ Level_calc(t)
        \/ Spec_call(t)
        \/ Spec_RLock(t)
        \/ Spec_body(t)
        \/ DefaultLevel_call(t)
        \/ DefaultLevel_RLock(t)
        \/ DefaultLevel_read(t)

Spec == Init /\ [][Next]_vars

(***************************************************************************)
(* One caller, whole calls: with no other goroutine the Lock/Unlock and    *)
(* RLock/RUnlock pairs of a call leave the mutex as they found it          *)
(***************************************************************************)
Driver == 1

\* Level(arg): cachedLevel, then on a miss the critical section
Level(t) ==
    /\ pc[t] = "idle"
    /\ IF CacheHit(arg[t]) THEN Level_hit(t, arg[t]) ELSE Level_store(t, arg[t])
    /\ UNCHANGED <<mutex, pc, arg, seen>>

\* ActivateSpec(arg), the first call of the caller
ActivateSpec(t) ==
    /\ pc[t] = "idle"
    /\ ret[t] = NoRet
    /\ ActivateSpec_do(t, arg[t])
    /\ UNCHANGED <<mutex, pc, arg>>

\* Spec() after a successful ActivateSpec
Spec_whole(t) ==
    /\ pc[t] = "idle"
    /\ ret[t].op = "ActivateSpec"
    /\ ret[t].err = NilErr
    /\ Spec_do(t)
    /\ UNCHANGED <<mutex, pc, arg, seen>>

\* ActivateSpec(Spec()): the caller feeds the rendered spec back
ActivateSpec_again(t) ==
    /\ pc[t] = "idle"
    /\ ret[t].op = "Spec"
    /\ ActivateSpec_do(t, ret[t].str)
    /\ UNCHANGED <<mutex, pc, arg>>

(***************************************************************************)
(* Resolution of one logger name against one configuration                 *)
(***************************************************************************)
NameAlphabet == {"a", "b", "."}

\* every string over NameAlphabet of at most MaxNameLen characters
Names == UNION { [1..k -> NameAlphabet] : k \in 0..MaxNameLen }

ResolveKeys == { <<"a">>, <<"a",".">>, <<"a",".","b">>, <<"a",".","b",".">> }

\* the configurations over ResolveKeys a successful ActivateSpec leaves
ResolveConfigs ==
    UNION { [K -> {DebugLevel, ErrorLevel}] : K \in SUBSET ResolveKeys }

InitResolve ==
    /\ defaultLevel \in {InfoLevel, WarnLevel}
    /\ specs \in ResolveConfigs
    /\ levelCache = EmptyMap
    /\ levelCacheNil = FALSE
    /\ mutex = [w |-> 0, r |-> {}]
    /\ pc = [t \in Threads |-> "idle"]
    /\ \E n \in Names : arg = [t \in Threads |-> IF t = Driver THEN n ELSE << >>]
    /\ ret = [t \in Threads |-> NoRet]
    /\ seen = [t \in Threads |-> {}]

NextResolve == Level(Driver)

SpecResolve == InitResolve /\ [][NextResolve]_vars

(***************************************************************************)
(* Activation of one specification string, then rendering and re-activation *)
(***************************************************************************)
ParseKeys == { <<"a">>, <<"a",".">>, <<"b">> }

LevelInputs ==
    { <<"D","E","B","U","G">>, <<"W","A","R","N">>,
      <<"P","A","Y","L","O","A","D">>, << >>, <<"a">> }

\* the comma-separated lists of one to MaxLoggers distinct keys
LoggerLists ==
    { Join(SortStrings(CHOOSE o \in Orders(K) : TRUE), ",") :
          K \in { K \in SUBSET ParseKeys : Cardinality(K) \in 1..MaxLoggers } }

ExtraSegments ==
    { <<"=","D","E","B","U","G">>,
      <<"a",",","=","D","E","B","U","G">>,
      <<"a",".",".","=","D","E","B","U","G">>,
      <<"a",".",".","b","=","D","E","B","U","G">>,
      <<"a","=","D","E","B","U","G","=","D","E","B","U","G">> }

Segments ==
    LevelInputs \cup ExtraSegments \cup
    { l \o <<"=">> \o v : l \in LoggerLists, v \in LevelInputs }

SpecInputs ==
    { Join(ss, ":") : ss \in UNION { [1..k -> Segments] : k \in 1..MaxSegs } }

InitParse ==
    /\ InitEngine
    /\ pc = [t \in Threads |-> "idle"]
    /\ \E s \in SpecInputs : arg = [t \in Threads |-> IF t = Driver THEN s ELSE << >>]
    /\ ret = [t \in Threads |-> NoRet]
    /\ seen = [t \in Threads |-> {}]

NextParse ==
    \/ ActivateSpec(Driver)
    \/ Spec_whole(Driver)
    \/ ActivateSpec_again(Driver)

SpecParse == InitParse /\ [][NextParse]_vars

(***************************************************************************)
(* Activation of one specification string twice, with Level calls of a     *)
(* second caller after the first activation                                *)
(***************************************************************************)
Reader == 2

\* Level(n) by caller t once the first activation has succeeded
Level_named(t) ==
    /\ pc[t] = "idle"
    /\ ret[Driver].op = "ActivateSpec"
    /\ ret[Driver].err = NilErr
    /\ \E n \in NameArgs :
          /\ arg' = [arg EXCEPT ![t] = n]
          /\ IF CacheHit(n) THEN Level_hit(t, n) ELSE Level_store(t, n)
    /\ UNCHANGED <<mutex, pc, seen>>

\* ActivateSpec(arg) again, after it succeeded
ActivateSpec_twice(t) ==
    /\ pc[t] = "idle"
    /\ ret[t].op = "ActivateSpec"
    /\ ret[t].err = NilErr
    /\ ActivateSpec_do(t, arg[t])
    /\ UNCHANGED <<mutex, pc, arg>>

NextIdem ==
    \/ ActivateSpec(Driver)
    \/ Level_named(Reader)
    \/ ActivateSpec_twice(Driver)

SpecIdem == InitParse /\ [][NextIdem]_vars

(***************************************************************************)
(* Properties                                                              *)
(***************************************************************************)
\* goroutine t returns from ActivateSpec in this step
ActivateSpecReturns(t) == ret'[t] # ret[t] /\ ret'[t].op = "ActivateSpec"

\* C1: whenever ActivateSpec returns an error, whichever segment failed, the
\* default level, the override map and the cache are what they were before
\* the call, so Level and Spec answer as before.
C1_ErrorLeavesEngine ==
    [][\A t \in Threads :
          (ActivateSpecReturns(t) /\ ret'[t].err # NilErr)
          => /\ defaultLevel' = defaultLevel
             /\ specs' = specs
             /\ levelCache' = levelCache
             /\ levelCacheNil' = levelCacheNil]_vars

\* an ActivateSpec failed at a segment after a valid first one, on an engine
\* that holds overrides and cached resolutions
C1_Witness ==
    \E t \in Threads :
        /\ ret[t].op = "ActivateSpec"
        /\ ret[t].err # NilErr
        /\ ret[t].err.what # Split(ret[t].in, ":")[1]
        /\ specs # EmptyMap
        /\ levelCache # EmptyMap

CacheConsistent ==
    \A n \in DOMAIN levelCache :
        levelCache[n] = calculateLevel(n, specs, defaultLevel)

\* C2: in every reachable state every cache entry equals what the resolver
\* computes against the active default level and override map, and a
\* successful ActivateSpec installs the parsed configuration and empties the
\* cache in one step.
C2_CacheConsistent ==
    /\ []CacheConsistent
    /\ [][\A t \in Threads :
            (ActivateSpecReturns(t) /\ ret'[t].err = NilErr)
            => /\ defaultLevel' = ParseSpec(ret'[t].in).defaultLevel
               /\ specs' = ParseSpec(ret'[t].in).specs
               /\ levelCache' = EmptyMap
               /\ levelCacheNil' = FALSE]_vars

\* the cache holds an entry while some Level call has lived through a
\* reconfiguration that changed the level of its name
C2_Witness ==
    /\ levelCache # EmptyMap
    /\ \E t \in Threads : Cardinality(seen[t]) >= 2

\* C3: every level returned by Level(n) is the resolver's result for n under
\* a configuration that was active at some instant of that call; a call that
\* starts after ActivateSpec(B) returned never returns a level of an earlier
\* configuration.
C3_LevelOfActiveConfig ==
    \A t \in Threads : ret[t].op = "Level" => ret[t].lvl \in seen[t]

\* a Level call returned after another goroutine's ActivateSpec changed the
\* level of its name between the cache miss and the store
C3_Witness ==
    \E t \in Threads :
        /\ ret[t].op = "Level"
        /\ ret[t].via # NoKey
        /\ Cardinality(seen[t]) >= 2

\* k is a bare key that covers the name n: n itself or an ancestor of n
Covers(k, n) ==
    /\ k # << >>
    /\ k[Len(k)] # "."
    /\ \/ k = n
       \/ /\ Len(n) > Len(k)
          /\ SubSeq(n, 1, Len(k) + 1) = k \o <<".">>

\* the reference resolution: exact key, else longest covering bare key, else
\* the default level
RefLevel(n, sp, dflt) ==
    IF (n \o <<".">>) \in DOMAIN sp THEN sp[n \o <<".">>]
    ELSE LET M == { k \in DOMAIN sp : Covers(k, n) }
         IN  IF M = {} THEN dflt
             ELSE sp[CHOOSE k \in M : \A j \in M : Len(j) <= Len(k)]

\* C4: for every configuration and every valid logger name n, Level(n) is the
\* level of key n+"." if present, else of the longest bare key covering n,
\* else the default level.
C4_LongestMatch ==
    (ret[Driver].op = "Level" /\ isValidLoggerName(ret[Driver].in))
    => ret[Driver].lvl = RefLevel(ret[Driver].in, specs, defaultLevel)

\* a.b.a is resolved by key a.b although key a is present with another level
C4_Witness ==
    /\ ret[Driver].op = "Level"
    /\ ret[Driver].in = <<"a",".","b",".","a">>
    /\ <<"a">> \in DOMAIN specs
    /\ <<"a",".","b">> \in DOMAIN specs
    /\ specs[<<"a">>] # specs[<<"a",".","b">>]
    /\ ret[Driver].lvl = specs[<<"a",".","b">>]

\* C5: with both X+"." and X in the override map at different levels,
\* Level(X) is the level of X+"." and Level(d) of a strict descendant d of X
\* with no more specific key is the level of X.
C5_ExactVersusPrefix ==
    \A X \in DOMAIN specs :
        ( /\ ret[Driver].op = "Level"
          /\ (X \o <<".">>) \in DOMAIN specs
          /\ specs[X \o <<".">>] # specs[X] )
        => LET n == ret[Driver].in
           IN  /\ n = X => ret[Driver].lvl = specs[X \o <<".">>]
               /\ ( /\ isValidLoggerName(n)
                    /\ Covers(X, n)
                    /\ n # X
                    /\ (n \o <<".">>) \notin DOMAIN specs
                    /\ \A k \in DOMAIN specs :
                          Covers(k, n) => Len(k) <= Len(X) )
                  => ret[Driver].lvl = specs[X]

\* with a. and a at different levels, the descendant a.b got the level of a
C5_Witness ==
    /\ ret[Driver].op = "Level"
    /\ ret[Driver].in = <<"a",".","b">>
    /\ DOMAIN specs = { <<"a">>, <<"a",".">> }
    /\ specs[<<"a">>] # specs[<<"a",".">>]
    /\ ret[Driver].lvl = specs[<<"a">>]

\* C6: the key X+"." determines the result of Level(n) only when n = X, for
\* every string n passed to Level.
C6_ExactKeyOnlyForItsName ==
    ( /\ ret[Driver].op = "Level"
      /\ ret[Driver].via # NoKey
      /\ ret[Driver].via[Len(ret[Driver].via)] = "." )
    => ret[Driver].via = ret[Driver].in \o <<".">>

\* C7: round trip: after an accepted spec, ActivateSpec(Spec()) succeeds and
\* yields the same default level and override map, hence the same Level(n)
\* for every logger name n.
C7_RoundTrip ==
    [][(ret[Driver].op = "Spec" /\ ret'[Driver].op = "ActivateSpec")
       => /\ ret'[Driver].err = NilErr
          /\ defaultLevel' = defaultLevel
          /\ specs' = specs
          /\ \A n \in Names :
                calculateLevel(n, specs', defaultLevel')
                    = calculateLevel(n, specs, defaultLevel)]_vars

\* the part of a rendered field before its '='
KeyOf(field) ==
    SubSeq(field, 1, (CHOOSE i \in 1..Len(field) : field[i] = "=") - 1)

\* str is the rendering of sp and dflt with the override fields in the
\* ascending order Before
Rendered(str, sp, dflt, Before(_, _)) ==
    LET f == Split(str, ":")
        n == Len(f)
    IN  /\ n = Cardinality(DOMAIN sp) + 1
        /\ f[n] = LevelString(dflt)
        /\ { f[i] : i \in 1..(n-1) } = { Field(k, sp[k]) : k \in DOMAIN sp }
        /\ \A i, j \in 1..(n-1) : i < j => Before(f[i], f[j])

KeyBefore(f, g) == StrLess(KeyOf(f), KeyOf(g))

\* C8 as stated: Spec() is one field key=level per override, ordered
\* lexicographically by key, joined by ':', then the default level name.
C8_SortedByKey ==
    ret[Driver].op = "Spec"
    => Rendered(ret[Driver].str, specs, defaultLevel, KeyBefore)

\* C8 amended: Spec() is one field key=level per override, the fields ordered
\* lexicographically as whole key=level strings, joined by ':', then the
\* default level name; it depends only on the configuration.
C8_SortedByField ==
    ret[Driver].op = "Spec"
    => Rendered(ret[Driver].str, specs, defaultLevel, StrLess)

\* Spec() rendered the overrides a and a., whose fields sort a. first
C8_Witness ==
    /\ ret[Driver].op = "Spec"
    /\ DOMAIN specs = { <<"a">>, <<"a",".">> }
    /\ KeyOf(Split(ret[Driver].str, ":")[1]) = <<"a",".">>

EqCount(seg) == Cardinality({ i \in 1..Len(seg) : seg[i] = "=" })
EqPos(seg) == CHOOSE i \in 1..Len(seg) : seg[i] = "="
Lhs(seg) == SubSeq(seg, 1, EqPos(seg) - 1)
Rhs(seg) == SubSeq(seg, EqPos(seg) + 1, Len(seg))

\* the logger-key syntax: after dropping one trailing '.', non-empty
\* dot-separated segments of name characters
KeySyntaxOK(k) ==
    LET b == IF k # << >> /\ k[Len(k)] = "." THEN SubSeq(k, 1, Len(k) - 1) ELSE k
        parts == Split(b, ".")
    IN  \A i \in 1..Len(parts) :
            /\ parts[i] # << >>
            /\ \A j \in 1..Len(parts[i]) : parts[i][j] \in NameChars

KeysOK(list) ==
    LET keys == Split(list, ",")
    IN  \A i \in 1..Len(keys) : KeySyntaxOK(keys[i])

BadSegment(seg) ==
    \/ EqCount(seg) > 1
    \/ EqCount(seg) = 1 /\ Lhs(seg) = << >>
    \/ EqCount(seg) = 1 /\ ~KeysOK(Lhs(seg))
    \/ EqCount(seg) = 1 /\ Rhs(seg) # << >> /\ ~IsValidLevel(Rhs(seg))
    \/ EqCount(seg) = 0 /\ seg # << >> /\ ~IsValidLevel(seg)

\* C9: ActivateSpec returns an error for every spec with a segment that has
\* more than one '=', an empty logger list, a logger key that fails the name
\* syntax after stripping one trailing '.', or a non-empty unrecognised level.
C9_BadSegmentRejected ==
    ( /\ ret[Driver].op = "ActivateSpec"
      /\ \E i \in 1..Len(Split(ret[Driver].in, ":")) :
             BadSegment(Split(ret[Driver].in, ":")[i]) )
    => ret[Driver].err # NilErr

\* a key ending in two dots, in a segment after a valid one, was rejected
C9_Witness ==
    /\ ret[Driver].op = "ActivateSpec"
    /\ ret[Driver].err.kind = "bad logger name"
    /\ ret[Driver].err.what = <<"a",".",".">>
    /\ Len(Split(ret[Driver].in, ":")) = 2
    /\ ~BadSegment(Split(ret[Driver].in, ":")[1])

\* a segment whose only possible fault is an empty level
EmptyLevelAllowed(seg) ==
    \/ EqCount(seg) = 0 /\ (seg = << >> \/ IsValidLevel(seg))
    \/ /\ EqCount(seg) = 1
       /\ Lhs(seg) # << >>
       /\ KeysOK(Lhs(seg))
       /\ (Rhs(seg) = << >> \/ IsValidLevel(Rhs(seg)))

\* C10: an empty level field is not an error: a segment with no '=' and an
\* empty level sets the default to the neutral level, and a segment
\* loggers= with a valid logger list is accepted and gives each listed key
\* the neutral level.
C10_EmptyLevelAccepted ==
    LET segs == Split(ret[Driver].in, ":")
        last == segs[Len(segs)]
    IN  ( /\ ret[Driver].op = "ActivateSpec"
          /\ \A i \in 1..Len(segs) : EmptyLevelAllowed(segs[i]) )
        => /\ ret[Driver].err = NilErr
           /\ last = << >> => defaultLevel = InfoLevel
           /\ (EqCount(last) = 1 /\ Rhs(last) = << >>)
              => \A i \in 1..Len(Split(Lhs(last), ",")) :
                    /\ Split(Lhs(last), ",")[i] \in DOMAIN specs
                    /\ specs[Split(Lhs(last), ",")[i]] = InfoLevel


\* C11: Level and Spec never fail in any reachable state, the state before
\* the first successful ActivateSpec included: every call completes normally.
C11_LevelNeverFails ==
    \A t \in Threads : pc[t] # "panic"

\* C12: ActivateSpec accepts every override segment keys=level whose keys
\* match the logger-name syntax, keys containing ':' included, and stores each
\* key verbatim with that level.
C12_ValidKeysAccepted ==
    LET s == ret[Driver].in
    IN  ( /\ ret[Driver].op = "ActivateSpec"
          /\ EqCount(s) = 1
          /\ Lhs(s) # << >>
          /\ KeysOK(Lhs(s))
          /\ IsValidLevel(Rhs(s)) )
        => /\ ret[Driver].err = NilErr
           /\ \A i \in 1..Len(Split(Lhs(s), ",")) :
                 /\ Split(Lhs(s), ",")[i] \in DOMAIN specs
                 /\ specs[Split(Lhs(s), ",")[i]] = NameToLevel(Rhs(s))

\* C13: after a successful ActivateSpec the default level is the level of the
\* last segment without '='; a spec that is a single level name leaves the
\* override map empty, so every name resolves to that level.
C13_LastDefaultWins ==
    LET segs == Split(ret[Driver].in, ":")
        plain == { i \in 1..Len(segs) : EqCount(segs[i]) = 0 }
        last == CHOOSE i \in plain : \A j \in plain : j <= i
    IN  (ret[Driver].op = "ActivateSpec" /\ ret[Driver].err = NilErr)
        => /\ plain # {} => defaultLevel = NameToLevel(segs[last])
           /\ (Len(segs) = 1 /\ plain = {1})
              => /\ specs = EmptyMap
                 /\ \A n \in Names :
                       calculateLevel(n, specs, defaultLevel) = defaultLevel

\* a spec with two level-only segments of different levels was accepted
C13_Witness ==
    LET segs == Split(ret[Driver].in, ":")
    IN  /\ ret[Driver].op = "ActivateSpec"
        /\ ret[Driver].err = NilErr
        /\ Len(segs) = 2
        /\ EqCount(segs[1]) = 0
        /\ EqCount(segs[2]) = 0
        /\ NameToLevel(segs[1]) # NameToLevel(segs[2])
        /\ defaultLevel = NameToLevel(segs[2])


\* the names the answers of Level are compared on
ProbeNames == { n \in Names : Len(n) <= 3 }

\* what Level(n) returns in an engine with the given cache and configuration
LevelAnswer(n, cache, isNil, sp, dflt) ==
    IF ~isNil /\ n \in DOMAIN cache THEN cache[n] ELSE calculateLevel(n, sp, dflt)

\* C14: idempotence: once ActivateSpec(s) has succeeded, ActivateSpec(s) again
\* succeeds and the default level, the override map, Spec() and Level(n) for
\* every n stay what they were, whatever Level calls filled the cache in
\* between.
C14_Idempotent ==
    [][(ret[Driver].op = "ActivateSpec" /\ ret[Driver].err = NilErr)
       => /\ ret'[Driver] = ret[Driver]
          /\ defaultLevel' = defaultLevel
          /\ specs' = specs
          /\ LET o == CHOOSE o \in Orders(DOMAIN specs) : TRUE
             IN  SpecString(o, specs', defaultLevel')
                     = SpecString(o, specs, defaultLevel)
          /\ \A n \in ProbeNames :
                LevelAnswer(n, levelCache', levelCacheNil', specs', defaultLevel')
                    = LevelAnswer(n, levelCache, levelCacheNil, specs, defaultLevel)]_vars

\* the second activation has emptied a cache that a Level call had filled
\* from an override of the first
C14_Witness ==
    /\ ret[Driver].op = "ActivateSpec"
    /\ ret[Driver].err = NilErr
    /\ ret[Reader].op = "Level"
    /\ ret[Reader].via # NoKey
    /\ ~levelCacheNil
    /\ levelCache = EmptyMap


\* C15 as stated: every error of ActivateSpec carries the full spec string and
\* the whole ':'-delimited field that caused the rejection, for each cause.
C15_ErrorNamesSegment ==
    LET segs == Split(ret[Driver].in, ":")
    IN  (ret[Driver].op = "ActivateSpec" /\ ret[Driver].err # NilErr)
        => /\ ret[Driver].err.spec = ret[Driver].in
           /\ \E i \in 1..Len(segs) : ret[Driver].err.what = segs[i]

\* C15 amended: every error of ActivateSpec carries the full spec string; for
\* too many '=', an empty logger list and a rejected level it carries the
\* whole field of the first failing segment, and for a bad logger key it
\* carries that key, one comma-separated element of the field, not the field.
C15_ErrorNamesSegmentOrKey ==
    LET segs == Split(ret[Driver].in, ":")
        e == ret[Driver].err
    IN  (ret[Driver].op = "ActivateSpec" /\ e # NilErr)
        => /\ e.spec = ret[Driver].in
           /\ \E i \in 1..Len(segs) :
                 /\ \A j \in 1..(i-1) : ~BadSegment(segs[j])
                 /\ IF e.kind = "bad logger name"
                    THEN /\ EqCount(segs[i]) = 1
                         /\ \E c \in 1..Len(Split(Lhs(segs[i]), ",")) :
                               e.what = Split(Lhs(segs[i]), ",")[c]
                         /\ ~KeySyntaxOK(e.what)
                         /\ e.what # segs[i]
                    ELSE e.what = segs[i]

\* a bad logger key in a second segment was reported by the key alone
C15_Witness ==
    LET segs == Split(ret[Driver].in, ":")
    IN  /\ ret[Driver].op = "ActivateSpec"
        /\ ret[Driver].err.kind = "bad logger name"
        /\ Len(segs) = 2
        /\ ret[Driver].err.spec = ret[Driver].in
        /\ ret[Driver].err.what = <<"a",".",".","b">>
        /\ segs[2] = <<"a",".",".","b","=","D","E","B","U","G">>


\* segment seg assigns a level to key k
NamesKey(seg, k) ==
    /\ EqCount(seg) = 1
    /\ \E c \in 1..Len(Split(Lhs(seg), ",")) : Split(Lhs(seg), ",")[c] = k

\* C16: a successful ActivateSpec(s) replaces the configuration wholesale:
\* the override map holds exactly the keys s names, each at the level of the
\* last segment naming it, whatever was held before, and without a segment
\* that has no '=' the default level is the neutral level.
C16_ReplacedWholesale ==
    [][\A t \in Threads :
          (ActivateSpecReturns(t) /\ ret'[t].err = NilErr)
          => LET segs == Split(ret'[t].in, ":")
             IN  /\ \A k \in DOMAIN specs' :
                       \E i \in 1..Len(segs) :
                           /\ NamesKey(segs[i], k)
                           /\ \A j \in (i+1)..Len(segs) : ~NamesKey(segs[j], k)
                           /\ specs'[k] = NameToLevel(Rhs(segs[i]))
                 /\ \A k \in DOMAIN specs :
                       (\A i \in 1..Len(segs) : ~NamesKey(segs[i], k))
                       => k \notin DOMAIN specs'
                 /\ (\A i \in 1..Len(segs) : EqCount(segs[i]) >= 1)
                    => defaultLevel' = InfoLevel]_vars

\* a.b=ERROR:WARN was activated and then a=DEBUG: the key a.b is gone and the
\* default level is back to the neutral level
C16_Witness ==
    \E t, u \in Threads :
        /\ ret[t].op = "ActivateSpec"
        /\ ret[t].err = NilErr
        /\ ret[t].in = <<"a","=","D","E","B","U","G">>
        /\ ret[u].op = "ActivateSpec"
        /\ ret[u].err = NilErr
        /\ ret[u].in = <<"a",".","b","=","E","R","R","O","R",":","W","A","R","N">>
        /\ DOMAIN specs = { <<"a">> }
        /\ defaultLevel = InfoLevel


\* C17: Level calls for one name that all missed the cache each calculate and
\* store while holding the exclusive lock; a store over an entry that is
\* still in the cache (no ActivateSpec committed since it was written) writes
\* the same value, and every store writes the value of the configuration
\* active at the store, never one of an older configuration.
C17_RacingStoresAgree ==
    [][\A t \in Threads :
          (pc[t] = "l_calc" /\ pc'[t] = "idle")
          => /\ mutex.w = t
             /\ mutex.r = {}
             /\ levelCache'[arg[t]]
                    = calculateLevel(arg[t], specs', defaultLevel')
             /\ CacheHit(arg[t]) => levelCache'[arg[t]] = levelCache[arg[t]]]_vars

\* a caller that missed holds the lock and is about to store over the entry
\* another caller stored for the same name meanwhile, from an override
C17_Witness ==
    \E t \in Threads :
        /\ pc[t] = "l_calc"
        /\ CacheHit(arg[t])
        /\ walk(arg[t] \o <<".">>, specs) # NoKey


Dots(n) == Cardinality({ i \in 1..Len(n) : n[i] = "." })

\* C18: the walk of Level terminates for every string: it starts at the name
\* plus '.', each candidate is strictly shorter than the one before, and it
\* makes at most (number of '.' in the name) + 2 lookups.
C18_WalkBounded ==
    ret[Driver].op = "Level"
    => LET n == ret[Driver].in
           tr == walkTrace(n \o <<".">>, specs)
       IN  /\ tr[1] = n \o <<".">>
           /\ Len(tr) <= Dots(n) + 2
           /\ \A i \in 1..(Len(tr) - 1) : Len(tr[i+1]) < Len(tr[i])
           /\ ret[Driver].via # NoKey => tr[Len(tr)] = ret[Driver].via

\* the name a..b, with adjacent dots, took the full 2 + 2 lookups
C18_Witness ==
    /\ ret[Driver].op = "Level"
    /\ ret[Driver].in = <<"a",".",".","b">>
    /\ Len(walkTrace(ret[Driver].in \o <<".">>, specs)) = 4


ReadPcs == {"sp_rlock", "sp_body", "dl_rlock", "dl_read"}

\* goroutine t takes a step of a Level call
LevelStep(t) ==
    pc'[t] # pc[t] /\ (pc[t] \in LevelPcs \/ pc'[t] \in LevelPcs)

\* goroutine t takes a step of a Spec or DefaultLevel call
ReadStep(t) ==
    pc'[t] # pc[t] /\ (pc[t] \in ReadPcs \/ pc'[t] \in ReadPcs)

\* C19: Level(n) leaves the default level and the override map unchanged and
\* changes the cache at most in the entry of n, a hit changing nothing;
\* Spec() and DefaultLevel() leave default level, override map and cache
\* unchanged.
C19_ReadsLeaveConfiguration ==
    [][\A t \in Threads :
          /\ LevelStep(t)
             => /\ defaultLevel' = defaultLevel
                /\ specs' = specs
                /\ levelCacheNil' = levelCacheNil
                /\ \A m \in (DOMAIN levelCache \cup DOMAIN levelCache') \ {arg'[t]} :
                      /\ m \in DOMAIN levelCache
                      /\ m \in DOMAIN levelCache'
                      /\ levelCache'[m] = levelCache[m]
                /\ (pc[t] = "cl_read" /\ CacheHit(arg[t]))
                   => levelCache' = levelCache
          /\ ReadStep(t) => engine' = engine]_vars

\* a Level call has stored a level taken from an override and a Spec call has
\* rendered that configuration
C19_Witness ==
    \E t, u \in Threads :
        /\ ret[t].op = "Level"
        /\ ret[t].via # NoKey
        /\ ret[t].lvl # defaultLevel
        /\ ret[u].op = "Spec"
        /\ ret[t].in \in DOMAIN levelCache


\* the positions at which a goroutine is between acquiring and releasing
\* m.mutex
WritePcs == {"as_body", "l_calc"}
SharedPcs == {"cl_read", "sp_body", "dl_read"}

\* C20: the lock is never left held: whoever holds m.mutex is a goroutine
\* inside its critical section, about to release it; a goroutine that has
\* left its call, or is waiting to acquire, holds nothing.
C20_LockNeverLeftHeld ==
    /\ mutex.w # 0 => pc[mutex.w] \in WritePcs
    /\ \A t \in mutex.r : pc[t] \in SharedPcs
    /\ \A t \in Threads :
          pc[t] \notin (WritePcs \cup SharedPcs) => mutex.w # t /\ t \notin mutex.r

====
